---- MODULE Spec2Model ----
(***************************************************************************)
(* Model of WeedSeeker-Main.ino (OPEnS Lab Weed Warden): setup(), the      *)
(* one-shot calibrate() pass and the endless monitoring loop of loop().    *)
(*                                                                         *)
(* Values of C type float are IEEE-754 binary32 numbers.  They are         *)
(* represented here as records [cls, sgn, man, exp]: cls is "fin", "inf"   *)
(* or "nan"; a finite non-zero value is sgn * man * 2^exp with             *)
(* 2^23 <= man < 2^24; zero is man = 0, exp = 0.  Every arithmetic         *)
(* operator rounds to nearest, ties to even, as the target's float         *)
(* arithmetic does.  The values this program produces stay far inside the  *)
(* binary32 exponent range, so overflow to infinity and subnormal results  *)
(* are not represented; the sign of zero is not kept.                      *)
(***************************************************************************)
EXTENDS Integers, Naturals, Sequences, FiniteSets, TLC

\* ------------------------------------------------------------------------
\* binary32 arithmetic
\* ------------------------------------------------------------------------

\* Width of the binary32 significand (implicit bit included).
MantBits == 24

\* 2^n for 0 <= n <= 30 (1 for n <= 0).
Pow2(n) == IF n <= 0 THEN 1 ELSE 2 ^ n

\* Number of bits of the natural number n < 2^31 (0 for n = 0).
BitLen(n) ==
    IF n >= 2 ^ 30 THEN 31
    ELSE CHOOSE b \in 0 .. 30 : n < 2 ^ b /\ (b = 0 \/ n >= 2 ^ (b - 1))

FNaN == [cls |-> "nan", sgn |-> 1, man |-> 0, exp |-> 0]
FZero == [cls |-> "fin", sgn |-> 1, man |-> 0, exp |-> 0]
FInf(s) == [cls |-> "inf", sgn |-> s, man |-> 0, exp |-> 0]
FFin(s, m, e) == [cls |-> "fin", sgn |-> s, man |-> m, exp |-> e]

IsNaN(x) == x.cls = "nan"
IsZero(x) == x.cls = "fin" /\ x.man = 0
IsFinite(x) == x.cls = "fin"

\* RoundF for a significand M > 0 of k + MantBits bits.
RoundBits(s, M, E, sticky, k) ==
    IF k <= 0 THEN FFin(s, M * Pow2(-k), E + k)
    ELSE LET q    == M \div Pow2(k)
             rest == M % Pow2(k)
             half == Pow2(k - 1)
             up   == \/ rest > half
                     \/ rest = half /\ sticky
                     \/ rest = half /\ ~sticky /\ q % 2 = 1
             q1   == IF up THEN q + 1 ELSE q
         IN  IF q1 = Pow2(MantBits)
             THEN FFin(s, Pow2(MantBits - 1), E + k + 1)
             ELSE FFin(s, q1, E + k)

\* The binary32 nearest to s * (M + t) * 2^E, where M is a natural number and
\* t is 0 when sticky is FALSE and some fraction strictly between 0 and 1 when
\* sticky is TRUE (then M has at least MantBits + 1 bits).  (The singleton
\* sets make M and its bit length be evaluated once.)
RoundF(s, M, E, sticky) ==
    CHOOSE r \in {IF m = 0 THEN FZero
                  ELSE RoundBits(s, m, E, sticky, BitLen(m) - MantBits) :
                  m \in {M}} : TRUE

\* Conversion of an int to float.
FromInt(n) == IF n < 0 THEN RoundF(-1, -n, 0, FALSE) ELSE RoundF(1, n, 0, FALSE)

FNeg(x) == IF x.cls = "nan" \/ IsZero(x) THEN x ELSE [x EXCEPT !.sgn = -x.sgn]

\* Long division: n further quotient bits of r / d appended to q.
\* Result <<quotient, remainder>>.
RECURSIVE DivBits(_, _, _, _)
DivBits(q, r, d, n) ==
    IF n = 0 THEN <<q, r>>
    ELSE IF 2 * r >= d THEN DivBits(2 * q + 1, 2 * r - d, d, n - 1)
         ELSE DivBits(2 * q, 2 * r, d, n - 1)

\* Quotient of two finite non-zero floats.
DivFinite(x, y) ==
    CHOOSE r \in {RoundF(x.sgn * y.sgn, qr[1], x.exp - y.exp - (MantBits + 2),
                         qr[2] # 0) :
                  qr \in {DivBits(x.man \div y.man, x.man % y.man, y.man,
                                  MantBits + 2)}} : TRUE

\* x / y for operands that are values.
DivValues(x, y) ==
    IF x.cls = "nan" \/ y.cls = "nan" THEN FNaN
    ELSE IF x.cls = "inf" THEN (IF y.cls = "inf" THEN FNaN ELSE FInf(x.sgn * y.sgn))
    ELSE IF y.cls = "inf" THEN FZero
    ELSE IF y.man = 0 THEN (IF x.man = 0 THEN FNaN ELSE FInf(x.sgn * y.sgn))
    ELSE IF x.man = 0 THEN FZero
    ELSE DivFinite(x, y)

\* float / float  (each operand is evaluated once)
FDiv(x, y) == CHOOSE r \in {DivValues(p[1], p[2]) : p \in {<<x, y>>}} : TRUE

\* Guard bits kept below the larger operand when two floats are aligned.
GuardBits == 6

\* Sum of two finite non-zero floats, a the one with the larger exponent.
AddAligned(a, b) ==
    LET d     == a.exp - b.exp
        A     == a.man * Pow2(GuardBits)
        sh    == IF d - GuardBits > MantBits + 1 THEN MantBits + 1 ELSE d - GuardBits
        B     == IF d <= GuardBits THEN b.man * Pow2(GuardBits - d)
                 ELSE b.man \div Pow2(sh)
        lost  == d > GuardBits /\ b.man % Pow2(sh) # 0
        E     == a.exp - GuardBits
    IN  IF a.sgn = b.sgn THEN RoundF(a.sgn, A + B, E, lost)
        ELSE IF A > B THEN RoundF(a.sgn, IF lost THEN A - B - 1 ELSE A - B, E, lost)
        ELSE IF A < B THEN RoundF(b.sgn, B - A, E, FALSE)
        ELSE FZero

\* x + y for operands that are values.
AddValues(x, y) ==
    IF x.cls = "nan" \/ y.cls = "nan" THEN FNaN
    ELSE IF x.cls = "inf" /\ y.cls = "inf" THEN (IF x.sgn = y.sgn THEN x ELSE FNaN)
    ELSE IF x.cls = "inf" THEN x
    ELSE IF y.cls = "inf" THEN y
    ELSE IF x.man = 0 THEN y
    ELSE IF y.man = 0 THEN x
    ELSE IF x.exp >= y.exp THEN AddAligned(x, y) ELSE AddAligned(y, x)

\* float + float  (each operand is evaluated once)
FAdd(x, y) == CHOOSE r \in {AddValues(p[1], p[2]) : p \in {<<x, y>>}} : TRUE

FSub(x, y) == FAdd(x, FNeg(y))

\* 2 * float (the int 2 converts to 2.0f; the product is exact).
FTwice(x) == IF x.cls = "fin" /\ x.man # 0 THEN [x EXCEPT !.exp = x.exp + 1] ELSE x

\* x < y on floats: FALSE as soon as an operand is NaN.
FLess(x, y) ==
    IF x.cls = "nan" \/ y.cls = "nan" THEN FALSE
    ELSE IF x = y THEN FALSE
    ELSE IF x.cls = "inf" THEN x.sgn = -1
    ELSE IF y.cls = "inf" THEN y.sgn = 1
    ELSE IF y.man = 0 THEN x.sgn = -1
    ELSE IF x.man = 0 THEN y.sgn = 1
    ELSE IF x.sgn # y.sgn THEN x.sgn = -1
    ELSE LET lessMag == \/ x.exp < y.exp
                        \/ x.exp = y.exp /\ x.man < y.man
         IN  IF x.sgn = 1 THEN lessMag ELSE ~lessMag

\* Truncation of a float with an integral value in int range back to an integer
\* (the float -> uint16_t conversion of  a = (float)a).
TruncF(x) ==
    IF x.man = 0 THEN 0
    ELSE IF x.exp >= 0 THEN x.sgn * x.man * Pow2(x.exp)
    ELSE x.sgn * (x.man \div Pow2(-x.exp))

\* ------------------------------------------------------------------------
\* Spectral samples
\* ------------------------------------------------------------------------

\* The 18 band labels of the AS7265x data block.
BandNames == {"a", "b", "c", "d", "e", "f", "g", "h", "i", "j", "k", "l",
              "r", "s", "t", "u", "v", "w"}

\* Number of values of uint16_t.
U16Range == 65536

\* Conversion of a JSON number to uint16_t.
U16(x) == x % U16Range

\* A data block: u, v, w, e, f, g, b, c, d as given, every other band = rest.
Block(u, v, w, e, f, g, b, c, d, rest) ==
    [n \in BandNames |->
        CASE n = "u" -> u [] n = "v" -> v [] n = "w" -> w
          [] n = "e" -> e [] n = "f" -> f [] n = "g" -> g
          [] n = "b" -> b [] n = "c" -> c [] n = "d" -> d
          [] OTHER -> rest]

\* The data blocks the sensor is presented with.
Blank  == Block(0, 0, 0, 0, 0, 0, 0, 0, 0, 0)                  \* no light: 0/0
Soil   == Block(3, 3, 3, 3, 3, 3, 1, 1, 1, 2)                  \* index 12/24
Dry    == Block(5, 5, 5, 5, 5, 5, 0, 0, 0, 1)                  \* index 30/30
Shade  == Block(1, 1, 1, 1, 1, 1, 2, 2, 2, 1)                  \* index -6/18
Weed   == Block(300, 300, 300, 100, 100, 100, 50, 50, 50, 20)  \* index 900/1500
Edge   == Block(101, 101, 101, 101, 101, 101, 32, 32, 33, 7)   \* index 412/800
Bright == Block(65535, 65535, 65535, 65535, 65535, 65535,
                65535, 65535, 65535, 65535)                    \* saturated
Blue   == Block(0, 0, 0, 0, 0, 0, 65535, 65535, 65535, 0)      \* index -1

\* Surfaces seen during the calibration pass and during monitoring.
CalSamples == {Blank, Soil, Dry, Shade}
Samples == CalSamples \cup {Weed, Edge, Bright, Blue}

\* Number of times the reading may change from one calibration sample to the
\* next (the reference surface is nominally uniform).
MaxCalChanges == 1

\* ------------------------------------------------------------------------
\* Program
\* ------------------------------------------------------------------------

\* for(int z=0; z<16; z++) and for(int i=0; i<16; i++); float ndvi[16]
NumCal == 16

\* float offset = .015: the binary32 nearest to 0.015 is 16106127 * 2^-30.
OffsetMan == 16106127
OffsetExp == -30
OffsetInit == FFin(1, OffsetMan, OffsetExp)

LOW == 0
HIGH == 1

\* Width of int on the Feather M0 (32-bit ARM Cortex-M0+).
IntBits == 32

\* The two's-complement value of w bits congruent to x modulo 2^w
\* (written with 2^(w-2) so that w = 32 can be evaluated).
WrapBits(x, w) ==
    LET H == 2 ^ (w - 2)
    IN  x - (((x \div H) + 2) \div 4) * 4 * H

\* Variant of ToInt: the operands are not promoted and the arithmetic is
\* done in uint16_t.
ToU16(x) == x % U16Range

\* The value of an int expression over the uint16_t bands: the operands are
\* promoted to int and the result is kept in IntBits bits.
ToInt(x) == WrapBits(x, IntBits)

\* uint16_t x = as7265x["x"]; x = (float)x;   for each of the 18 bands
ReadBands(data) == [n \in BandNames |-> U16(TruncF(FromInt(U16(data[n]))))]

\* calibrate(): float nd = ((u + v + w + e + f + g) - 2*(b + c + d));
CalNd(s) ==
    FromInt(ToInt((s.u + s.v + s.w + s.e + s.f + s.g) - 2 * (s.b + s.c + s.d)))
\* calibrate(): float vib = ((u + v + w + e + f + g) + 2*(b + c + d));
CalVib(s) ==
    FromInt(ToInt((s.u + s.v + s.w + s.e + s.f + s.g) + 2 * (s.b + s.c + s.d)))
\* calibrate(): ndvi[z] = nd/vib;
CalIndex(s) == FDiv(CalNd(s), CalVib(s))

\* Variant of MonNd: the factor 2 is applied to the wrong group of bands.
MonNdSwapped(s) == FromInt(2 * (s.u + s.v + s.w + s.e + s.f + s.g) - (s.b + s.c + s.d))

\* Variant of MonNd: the factor 2 of the blue bands is missing.
MonNdPlain(s) == FromInt((s.u + s.v + s.w + s.e + s.f + s.g) - (s.b + s.c + s.d))

\* loop(): float nd = ((u + v + w + e + f + g) - 2*(b + c + d));
MonNd(s) ==
    FromInt(ToInt((s.u + s.v + s.w + s.e + s.f + s.g) - 2 * (s.b + s.c + s.d)))
\* Variant of MonVib: the factor 2 of the blue bands is missing.
MonVibPlain(s) == FromInt((s.u + s.v + s.w + s.e + s.f + s.g) + (s.b + s.c + s.d))

\* loop(): float vib = ((u + v + w + e + f + g) + 2*(b + c + d));
MonVib(s) ==
    FromInt(ToInt((s.u + s.v + s.w + s.e + s.f + s.g) + 2 * (s.b + s.c + s.d)))
\* loop(): float ndvib = nd/vib;
MonIndex(s) == FDiv(MonNd(s), MonVib(s))

\* loop(): float total = a + b + ... + w;
Total(s) ==
    FromInt(ToInt(s.a + s.b + s.c + s.d + s.e + s.f + s.g + s.h + s.i + s.j
                  + s.k + s.l + s.r + s.s + s.t + s.u + s.v + s.w))

\* loop(): float a_w = a/total; ... float w_w = w/total;  (h, i, l have none;
\* e_w and f_w are both computed from b).
Fractions(s, tot) ==
    [a |-> FDiv(FromInt(s.a), tot), b |-> FDiv(FromInt(s.b), tot),
     c |-> FDiv(FromInt(s.c), tot), d |-> FDiv(FromInt(s.d), tot),
     e |-> FDiv(FromInt(s.b), tot), f |-> FDiv(FromInt(s.b), tot),
     g |-> FDiv(FromInt(s.g), tot), j |-> FDiv(FromInt(s.j), tot),
     k |-> FDiv(FromInt(s.k), tot), r |-> FDiv(FromInt(s.r), tot),
     s |-> FDiv(FromInt(s.s), tot), t |-> FDiv(FromInt(s.t), tot),
     u |-> FDiv(FromInt(s.u), tot), v |-> FDiv(FromInt(s.v), tot),
     w |-> FDiv(FromInt(s.w), tot)]

\* loop(): float ndvib_w = ((u_w + ... + g_w) - 2*(b_w + c_w + d_w))
\*                       / ((u_w + ... + g_w) + 2*(b_w + c_w + d_w));
NormIndex(x) ==
    LET top == FAdd(FAdd(FAdd(FAdd(FAdd(x.u, x.v), x.w), x.e), x.f), x.g)
        bot == FTwice(FAdd(FAdd(x.b, x.c), x.d))
    IN  FDiv(FSub(top, bot), FAdd(top, bot))

\* loop(): float ps = v-f; float nd2 = v+f; float psnd = ps/nd2;
Psnd(s) == FDiv(FromInt(ToInt(s.v - s.f)), FromInt(ToInt(s.v + s.f)))
\* loop(): float psnd_w = ((v_w-f_w)/(v_w+f_w));
NormPsnd(x) == FDiv(FSub(x.v, x.f), FAdd(x.v, x.f))

\* Variant of IsTarget: the comparison written as !(ndvib <= threshold).
IsTargetUnlessBelow(thr, idx) == ~(FLess(idx, thr) \/ (idx = thr /\ ~IsNaN(idx)))

\* Variant of IsTarget: the comparison written with <= instead of <.
IsTargetOrEqual(thr, idx) == FLess(thr, idx) \/ (thr = idx /\ ~IsNaN(thr))

\* loop(): if(threshold < ndvib)
IsTarget(thr, idx) == FLess(thr, idx)

\* Variant of Average: the offset is not added.
AverageOnly(sum, off) == FDiv(sum, FromInt(NumCal))

\* calibrate(): threshold = (threshold / 16) + offset;
Average(sum, off) == FAdd(FDiv(sum, FromInt(NumCal)), off)

\* What one pass of the monitoring loop computes from the bands it read.
MonCompute(s) ==
    LET tot == Total(s)
        x   == Fractions(s, tot)
        idx == MonIndex(s)
    IN  [total |-> tot, frac |-> x, ndvib |-> idx, psnd |-> Psnd(s),
         ndvib_w |-> NormIndex(x), psnd_w |-> NormPsnd(x)]

\* The pure computations above, evaluated once for each data block.
ReadTable == [d \in Samples |-> ReadBands(d)]
CalTable == [s \in {ReadTable[d] : d \in Samples} |-> CalIndex(s)]
MonTable == [s \in {ReadTable[d] : d \in Samples} |-> MonCompute(s)]

\* ------------------------------------------------------------------------
\* State
\* ------------------------------------------------------------------------

VARIABLES
    pc,          \* position of the control thread
    threshold,   \* float threshold
    ndvi,        \* float ndvi[16]
    offset,      \* float offset
    z,           \* calibrate(): index of the sampling loop
    i,           \* calibrate(): index of the summing loop
    rail3V,      \* level written to 3.3V_Rail_Enable
    rail12V,     \* level written to 12V_Rail_Enable (the actuator)
    bands,       \* the locals a .. w of the last data block read
    total,       \* loop(): float total
    frac,        \* loop(): the locals a_w .. w_w
    ndvib,       \* loop(): float ndvib
    psnd,        \* loop(): float psnd
    record,      \* values added to the Loom package by add_data
    sdlog,       \* last record written by Loom.SDCARD().log()
    decision,    \* last classification banner sent to Serial
    acquired,    \* number of Loom.measure() calls made by calibrate()
    acqFailed,   \* some Loom.measure() call produced no fresh reading
    calChanges   \* changes of reading seen so far within the calibration pass

vars == <<pc, threshold, ndvi, offset, z, i, rail3V, rail12V, bands, total,
          frac, ndvib, psnd, record, sdlog, decision, acquired, acqFailed,
          calChanges>>

globals == <<threshold, ndvi, offset>>
monLocals == <<total, frac, ndvib, psnd, record>>

NoRecord == [NDVIB |-> FZero, Threshold |-> FZero, NDVIB_W |-> FZero,
             PSND_W |-> FZero]

\* State at power-up: the globals as initialised, nothing read or written yet.
Init ==
    /\ pc = "setup"
    /\ threshold = FZero
    /\ ndvi = [n \in 0 .. NumCal - 1 |-> FZero]
    /\ offset = OffsetInit
    /\ z = 0
    /\ i = 0
    /\ rail3V = HIGH          \* active low: the 3.3V rail is off
    /\ rail12V = LOW
    /\ bands = Blank
    /\ total = FZero
    /\ frac = Fractions(Blank, FromInt(1))
    /\ ndvib = FZero
    /\ psnd = FZero
    /\ record = NoRecord
    /\ sdlog = NoRecord
    /\ decision = "none"
    /\ acquired = 0
    /\ acqFailed = FALSE
    /\ calChanges = 0

\* ------------------------------------------------------------------------
\* Operations
\* ------------------------------------------------------------------------

\* setup(), then the entry of loop() into calibrate().
Setup ==
    /\ pc = "setup"
    /\ rail3V' = LOW
    /\ rail12V' = LOW
    /\ z' = 0
    /\ pc' = "cal_sample"
    /\ UNCHANGED <<globals, i, bands, monLocals, sdlog, decision, acquired,
                   acqFailed, calChanges>>

\* Loom.measure(); Loom.package(): the data block handed to the program.  The
\* call returns nothing the program looks at: when it fails, the package holds
\* whatever the collaborator left there.
Acquire(data, failed) ==
    /\ bands' = ReadTable[data]
    /\ acqFailed' = (acqFailed \/ failed)

\* Variant of CalSample: a reading with a zero denominator is taken again
\* instead of being stored.
CalSampleRetry ==
    /\ pc = "cal_sample"
    /\ z < NumCal
    /\ \E data \in CalSamples, failed \in BOOLEAN :
          /\ z = 0 \/ data = bands \/ calChanges < MaxCalChanges
          /\ calChanges' = IF z > 0 /\ data # bands THEN calChanges + 1
                           ELSE calChanges
          /\ Acquire(data, failed)
    /\ acquired' = IF acquired < NumCal + 1 THEN acquired + 1 ELSE acquired
    /\ IF IsNaN(CalTable[bands'])
       THEN UNCHANGED <<ndvi, z, i, pc>>
       ELSE /\ ndvi' = [ndvi EXCEPT ![z] = CalTable[bands']]
            /\ z' = z + 1
            /\ i' = 0
            /\ pc' = IF z + 1 < NumCal THEN "cal_sample" ELSE "cal_sum"
    /\ UNCHANGED <<threshold, offset, rail3V, rail12V, monLocals, sdlog,
                   decision>>

\* calibrate(): one pass of the sampling loop.
CalSample ==
    /\ pc = "cal_sample"
    /\ z < NumCal
    /\ \E data \in CalSamples, failed \in BOOLEAN :
          /\ z = 0 \/ data = bands \/ calChanges < MaxCalChanges
          /\ calChanges' = IF z > 0 /\ data # bands THEN calChanges + 1
                           ELSE calChanges
          /\ Acquire(data, failed)
    /\ acquired' = acquired + 1
    /\ ndvi' = [ndvi EXCEPT ![z] = CalTable[bands']]
    /\ z' = z + 1
    /\ i' = 0
    /\ pc' = IF z + 1 < NumCal THEN "cal_sample" ELSE "cal_sum"
    /\ UNCHANGED <<threshold, offset, rail3V, rail12V, monLocals, sdlog,
                   decision>>

\* Variant of CalSum: an entry that is not a finite number is left out of the
\* sum.
CalSumSkip ==
    /\ pc = "cal_sum"
    /\ i < NumCal
    /\ threshold' = IF IsFinite(ndvi[i]) THEN FAdd(threshold, ndvi[i])
                    ELSE threshold
    /\ i' = i + 1
    /\ pc' = IF i + 1 < NumCal THEN "cal_sum" ELSE "cal_average"
    /\ UNCHANGED <<ndvi, offset, z, rail3V, rail12V, bands, monLocals, sdlog,
                   decision, acquired, acqFailed, calChanges>>

\* calibrate(): one pass of  for(int i=0; i<16; i++) threshold += ndvi[i];
CalSum ==
    /\ pc = "cal_sum"
    /\ i < NumCal
    /\ threshold' = FAdd(threshold, ndvi[i])
    /\ i' = i + 1
    /\ pc' = IF i + 1 < NumCal THEN "cal_sum" ELSE "cal_average"
    /\ UNCHANGED <<ndvi, offset, z, rail3V, rail12V, bands, monLocals, sdlog,
                   decision, acquired, acqFailed, calChanges>>

\* calibrate(): threshold = (threshold / 16) + offset;
CalAverage ==
    /\ pc = "cal_average"
    /\ threshold' = Average(threshold, offset)
    /\ pc' = "cal_beacon"
    /\ UNCHANGED <<ndvi, offset, z, i, rail3V, rail12V, bands, monLocals,
                   sdlog, decision, acquired, acqFailed, calChanges>>

\* calibrate(): digitalWrite(12V_Rail_Enable, HIGH); then delay(6000) starts.
BeaconOn ==
    /\ pc = "cal_beacon"
    /\ rail12V' = HIGH
    /\ pc' = "cal_delay"
    /\ UNCHANGED <<globals, z, i, rail3V, bands, monLocals, sdlog, decision,
                   acquired, acqFailed, calChanges>>

\* Variant of BeaconOff: the rail is not switched off when the delay is over.
BeaconLeftOn ==
    /\ pc = "cal_delay"
    /\ pc' = "mon_measure"
    /\ UNCHANGED <<globals, z, i, rail3V, rail12V, bands, monLocals, sdlog,
                   decision, acquired, acqFailed, calChanges>>

\* calibrate(): delay(6000) is over; digitalWrite(12V_Rail_Enable, LOW);
\* return into while(1).
BeaconOff ==
    /\ pc = "cal_delay"
    /\ rail12V' = LOW
    /\ pc' = "mon_measure"
    /\ UNCHANGED <<globals, z, i, rail3V, bands, monLocals, sdlog, decision,
                   acquired, acqFailed, calChanges>>

\* loop(): measure, package, read the bands, compute the indices and add them
\* to the package.  (LightState names no variable of the program; EVI and
\* EVI_W are double-precision diagnostics that nothing reads: the three are
\* left out of the record.)
MonMeasure ==
    /\ pc = "mon_measure"
    /\ \E data \in Samples, failed \in BOOLEAN : Acquire(data, failed)
    /\ total' = MonTable[bands'].total
    /\ frac' = MonTable[bands'].frac
    /\ ndvib' = MonTable[bands'].ndvib
    /\ psnd' = MonTable[bands'].psnd
    /\ record' = [NDVIB |-> ndvib', Threshold |-> threshold,
                  NDVIB_W |-> MonTable[bands'].ndvib_w,
                  PSND_W |-> MonTable[bands'].psnd_w]
    /\ pc' = "mon_log"
    /\ UNCHANGED <<globals, z, i, rail3V, rail12V, sdlog, decision, acquired,
                   calChanges>>

\* Variant of MonLog: the record of the cycle is not written to the card.
MonLogDropped ==
    /\ pc = "mon_log"
    /\ pc' = "mon_decide"
    /\ UNCHANGED <<globals, z, i, rail3V, rail12V, bands, monLocals, sdlog,
                   decision, acquired, acqFailed, calChanges>>

\* loop(): Loom.SDCARD().log();
MonLog ==
    /\ pc = "mon_log"
    /\ sdlog' = record
    /\ pc' = "mon_decide"
    /\ UNCHANGED <<globals, z, i, rail3V, rail12V, bands, monLocals, decision,
                   acquired, acqFailed, calChanges>>

\* Variant of MonDecide: the rail is switched on by a target and never
\* switched off again.
MonDecideLatch ==
    /\ pc = "mon_decide"
    /\ IF IsTarget(threshold, ndvib)
       THEN decision' = "Target" /\ rail12V' = HIGH
       ELSE decision' = "NoTarget" /\ rail12V' = rail12V
    /\ pc' = "mon_pause"
    /\ UNCHANGED <<globals, z, i, rail3V, bands, monLocals, sdlog, acquired,
                   acqFailed, calChanges>>

\* Variant of MonDecide: a cycle whose index is not a number stops the
\* control loop instead of being decided.
MonDecideStop ==
    /\ pc = "mon_decide"
    /\ ~IsNaN(ndvib)
    /\ IF IsTarget(threshold, ndvib)
       THEN decision' = "Target" /\ rail12V' = HIGH
       ELSE decision' = "NoTarget" /\ rail12V' = LOW
    /\ pc' = "mon_pause"
    /\ UNCHANGED <<globals, z, i, rail3V, bands, monLocals, sdlog, acquired,
                   acqFailed, calChanges>>

\* loop(): if(threshold < ndvib) {... HIGH} else {... LOW}
MonDecide ==
    /\ pc = "mon_decide"
    /\ IF IsTarget(threshold, ndvib)
       THEN decision' = "Target" /\ rail12V' = HIGH
       ELSE decision' = "NoTarget" /\ rail12V' = LOW
    /\ pc' = "mon_pause"
    /\ UNCHANGED <<globals, z, i, rail3V, bands, monLocals, sdlog, acquired,
                   acqFailed, calChanges>>

\* Variant of MonPause: the rail is switched off for the pause.
MonPauseRailOff ==
    /\ pc = "mon_pause"
    /\ pc' = "mon_measure"
    /\ rail12V' = LOW
    /\ UNCHANGED <<globals, z, i, rail3V, bands, monLocals, sdlog, decision,
                   acquired, acqFailed, calChanges>>

\* Variant of MonPause: the threshold follows the last reading classified as
\* no target.
MonPauseAdapt ==
    /\ pc = "mon_pause"
    /\ pc' = "mon_measure"
    /\ threshold' = IF decision = "NoTarget" /\ IsFinite(ndvib)
                    THEN FAdd(ndvib, offset) ELSE threshold
    /\ UNCHANGED <<ndvi, offset, z, i, rail3V, rail12V, bands, monLocals,
                   sdlog, decision, acquired, acqFailed, calChanges>>

\* Variant of MonPause: the cycle is not enclosed in while(1), so loop()
\* returns and its next invocation runs calibrate() again.
MonPauseReturn ==
    /\ pc = "mon_pause"
    /\ pc' = "cal_sample"
    /\ z' = 0
    /\ UNCHANGED <<globals, i, rail3V, rail12V, bands, monLocals, sdlog,
                   decision, acquired, acqFailed, calChanges>>

\* loop(): Loom.pause(); next pass of while(1).
MonPause ==
    /\ pc = "mon_pause"
    /\ pc' = "mon_measure"
    /\ UNCHANGED <<globals, z, i, rail3V, rail12V, bands, monLocals, sdlog,
                   decision, acquired, acqFailed, calChanges>>

Next ==
    \/ Setup
    \/ CalSample
    \/ CalSum
    \/ CalAverage
    \/ BeaconOn
    \/ BeaconOff
    \/ MonMeasure
    \/ MonLog
    \/ MonDecide
    \/ MonPause

Spec == Init /\ [][Next]_vars

\* The control thread is the only thread and every call it makes returns: it
\* keeps taking steps.
FairSpec == Spec /\ WF_vars(Next)

\* ------------------------------------------------------------------------
\* Properties
\* ------------------------------------------------------------------------

CalPcs == {"cal_sample", "cal_sum", "cal_average", "cal_beacon", "cal_delay"}
MonPcs == {"mon_measure", "mon_log", "mon_decide", "mon_pause"}

\* calibrate() has returned and no monitoring cycle has started yet.
JustCalibrated == pc = "mon_measure" /\ decision = "none"

\* The vegetation index of the bands of the current cycle.
CurIndex == MonTable[bands].ndvib

\* C1: in every monitoring cycle the sample is classified Target exactly
\* when its vegetation index is strictly greater than the threshold; a sample
\* whose index equals the threshold is classified NoTarget.
C1_StrictDecision ==
    pc = "mon_pause" =>
        /\ decision \in {"Target", "NoTarget"}
        /\ (decision = "Target") <=> FLess(threshold, CurIndex)
        /\ (CurIndex = threshold) => decision = "NoTarget"

\* A cycle whose index is finite and equal to the threshold has been decided.
C1_Witness ==
    /\ pc = "mon_pause"
    /\ IsFinite(CurIndex)
    /\ CurIndex = threshold
    /\ decision = "NoTarget"

\* Sum of the first n entries of arr, accumulated from 0 in index order.
RECURSIVE SumTo(_, _)
SumTo(arr, n) == IF n = 0 THEN FZero ELSE FAdd(SumTo(arr, n - 1), arr[n - 1])

Half == FDiv(FromInt(1), FromInt(2))
\* The binary32 nearest to 0.515.
Thr515 == FDiv(FromInt(515), FromInt(1000))

\* C2: when calibrate() has computed the threshold, it equals the sum of the
\* 16 calibration indices divided by 16 plus the offset (binary32 arithmetic,
\* in the order of the code) whenever every index is finite; 16 indices of 0.5
\* give 0.515.
C2_ThresholdIsMeanPlusOffset ==
    (pc \in {"cal_beacon", "cal_delay"} \/ JustCalibrated) =>
        /\ (\A k \in 0 .. NumCal - 1 : IsFinite(ndvi[k])) =>
              threshold = FAdd(FDiv(SumTo(ndvi, NumCal), FromInt(16)), OffsetInit)
        /\ (\A k \in 0 .. NumCal - 1 : ndvi[k] = Half) => threshold = Thr515

\* calibrate() has returned from a batch of 16 indices 0.5 with 0.515.
C2_Witness ==
    /\ JustCalibrated
    /\ \A k \in 0 .. NumCal - 1 : ndvi[k] = Half
    /\ threshold = Thr515
\* The level the rail gets from a cycle with the given threshold and index.
RailFor(thr, idx) == IF FLess(thr, idx) THEN HIGH ELSE LOW

\* C3: at the end of every monitoring cycle the 12V rail is active exactly
\* when that cycle's decision is Target, and its level is a function of that
\* cycle's sample and the threshold alone.
C3_RailFollowsDecision ==
    pc = "mon_pause" =>
        /\ (rail12V = HIGH) <=> (decision = "Target")
        /\ rail12V = RailFor(threshold, CurIndex)

\* A cycle has ended NoTarget with the rail inactive, under a threshold that
\* another sample (Weed) exceeds.
C3_Witness ==
    /\ pc = "mon_pause"
    /\ decision = "NoTarget"
    /\ rail12V = LOW
    /\ IsFinite(CurIndex)
    /\ FLess(threshold, MonTable[Weed].ndvib)

\* The threshold has been computed by calibrate().
Calibrated == pc \in {"cal_beacon", "cal_delay"} \cup MonPcs

\* C4: once calibrate() has computed the threshold, no step writes threshold
\* or offset again.
C4_ThresholdFrozen ==
    [][Calibrated => (threshold' = threshold /\ offset' = offset)]_vars

\* A monitoring cycle has been decided with a threshold that calibration set.
C4_Witness ==
    /\ pc = "mon_pause"
    /\ threshold # FZero
    /\ decision = "Target"

\* INIT = 0, CALIBRATING = 1, MONITORING = 2.
PhaseRank == IF pc = "setup" THEN 0 ELSE IF pc \in CalPcs THEN 1 ELSE 2

\* C5: the phases follow INIT, CALIBRATING, MONITORING; calibrate() runs
\* once and is complete before the first classification; no step leaves
\* MONITORING.
C5_PhaseOrder ==
    /\ [](decision # "none" => PhaseRank = 2)
    /\ [](PhaseRank = 2 => (z = NumCal /\ i = NumCal /\ acquired = NumCal))
    /\ [][PhaseRank' >= PhaseRank /\ PhaseRank' <= PhaseRank + 1]_vars
    /\ [][pc' = "cal_sample" => pc \in {"setup", "cal_sample"}]_vars

\* A second monitoring cycle is about to start.
C5_Witness == pc = "mon_measure" /\ decision # "none"

\* C6: the calibrator makes exactly 16 acquisitions, one per pass and none
\* repeated, before the threshold is computed, and no decision is made before.
C6_SixteenAcquisitions ==
    /\ pc = "setup" => acquired = 0
    /\ pc = "cal_sample" => (acquired = z /\ z < NumCal)
    /\ pc \notin {"setup", "cal_sample"} => acquired = NumCal
    /\ acquired < NumCal => (threshold = FZero /\ decision = "none")

\* The sampling loop has ended and the summing loop is about to start.
C6_Witness == pc = "cal_sum" /\ i = 0 /\ acquired = NumCal /\ z = NumCal

\* C7: calibrate() and the monitoring cycle compute the same index from the
\* same bands: the entry calibrate() stored for the bands it read is what the
\* monitoring formula gives for them, and the index of a monitoring cycle is
\* what the calibration formula gives for its bands.
C7_SameFormula ==
    /\ (pc \in {"cal_sample", "cal_sum"} /\ z > 0) =>
          ndvi[z - 1] = MonTable[bands].ndvib
    /\ pc \in {"mon_log", "mon_decide", "mon_pause"} =>
          ndvib = CalTable[bands]

\* Both sites have computed a finite index that depends on the blue bands.
C7_Witness ==
    /\ pc = "mon_log"
    /\ bands = ReadTable[Weed]
    /\ ndvib = CalTable[bands]
    /\ \E k \in 0 .. NumCal - 1 : ndvi[k] = MonTable[ReadTable[Soil]].ndvib

\* C8: the rail is inactive from setup() until the threshold is computed, is
\* active during the beacon delay only, is inactive again when the first
\* monitoring cycle starts, and is active afterwards only by a Target
\* decision.
C8_BeaconPulse ==
    /\ pc \in {"setup", "cal_sample", "cal_sum", "cal_average", "cal_beacon"}
          => rail12V = LOW
    /\ pc = "cal_delay" => (rail12V = HIGH /\ i = NumCal)
    /\ JustCalibrated => rail12V = LOW
    /\ (pc \in MonPcs /\ rail12V = HIGH) => decision = "Target"

\* The beacon is on.
C8_Witness == pc = "cal_delay" /\ rail12V = HIGH /\ decision = "none"

\* C9: no division by zero goes unhandled: no index held by the program is
\* the not-a-number result of 0/0.
C9_NoUnhandledZeroDivision ==
    /\ \A k \in 0 .. NumCal - 1 : ~IsNaN(ndvi[k])
    /\ ~IsNaN(ndvib)
    /\ ~IsNaN(record.NDVIB_W)
    /\ \A n \in DOMAIN frac : ~IsNaN(frac[n])

\* C10: after a failed acquisition no decision is emitted and no
\* decision-driven write of the rail is made.
\* (pc = "mon_pause" is reached only by the step that decides and writes.)
C10_HaltOnFailedAcquisition == acqFailed => pc # "mon_pause"

\* The integers u+v+w+e+f+g and b+c+d of a data block.
RedSum(s) == s.u + s.v + s.w + s.e + s.f + s.g
BlueSum(s) == s.b + s.c + s.d
\* The per-sample denominator (u+v+w+e+f+g) + 2(b+c+d).
Denominator(s) == RedSum(s) + 2 * BlueSum(s)

\* C11: calibrate() yields a finite threshold only if every per-sample
\* denominator is non-zero: a calibration sample has a zero denominator
\* exactly when its stored index is not a number, and as soon as one stored
\* index is not a number the threshold calibrate() ends with is not finite.
C11_FiniteOnlyIfDenominators ==
    /\ (pc \in {"cal_sample", "cal_sum"} /\ z > 0) =>
          ((Denominator(bands) = 0) <=> ~IsFinite(ndvi[z - 1]))
    /\ (Calibrated /\ \E k \in 0 .. NumCal - 1 : ~IsFinite(ndvi[k])) =>
          ~IsFinite(threshold)

\* calibrate() has returned from a batch with one zero denominator among
\* non-zero ones, and the threshold is not a number.
C11_Witness ==
    /\ JustCalibrated
    /\ \E k \in 0 .. NumCal - 1 : IsNaN(ndvi[k])
    /\ \E k \in 0 .. NumCal - 1 : IsFinite(ndvi[k])
    /\ Denominator(bands) = 0
    /\ IsNaN(threshold)

\* C12: when every call returns, calibration ends (the first monitoring cycle
\* starts, after the 16th sample and the beacon) and the classifier runs
\* forever: every monitoring cycle that starts reaches its decision and rail
\* write, and every decided cycle is followed by another one.
C12_CalibrationEndsMonitoringRuns ==
    /\ (pc = "setup") ~> JustCalibrated
    /\ (pc = "mon_measure") ~> (pc = "mon_pause")
    /\ (pc = "mon_pause") ~> (pc = "mon_measure")
    /\ []<>(pc = "mon_decide")

\* A cycle after the first one is about to be decided.
C12_Witness == pc = "mon_decide" /\ decision # "none" /\ acquired = NumCal

\* The fraction of the total that each normalised band itself contributes,
\* for each data block.
OwnFractions ==
    [s \in DOMAIN MonTable |->
        [n \in DOMAIN MonTable[s].frac |-> FDiv(FromInt(s[n]), MonTable[s].total)]]

\* The normalised index computed from the bands' own fractions.
OwnNormIndex == [s \in DOMAIN MonTable |-> NormIndex(OwnFractions[s])]

\* C13: in a monitoring cycle with total > 0 every normalised fraction x_w is
\* x / total of the same band x (e_w = e / total and f_w = f / total
\* included), and the logged NDVIB_W is the index formula on those fractions.
C13_FractionsOfSameBand ==
    (pc \in {"mon_log", "mon_decide", "mon_pause"} /\ FLess(FZero, total)) =>
        /\ \A n \in DOMAIN frac : frac[n] = OwnFractions[bands][n]
        /\ record.NDVIB_W = OwnNormIndex[bands]

\* The floats nearest to 900 / 1500 and to 0.6.
NineFifteenths == FDiv(FromInt(900), FromInt(1500))
SixTenths == FDiv(FromInt(6), FromInt(10))

\* C14: the data block u = v = w = 300, e = f = g = 100, b = c = d = 50 has
\* the index 900 / 1500 = 0.6, and a cycle that reads it with the threshold
\* 0.515 prints Target and leaves the rail HIGH.
C14_SampleIsTarget ==
    /\ (pc \in {"mon_log", "mon_decide", "mon_pause"} /\ bands = ReadTable[Weed]) =>
          /\ ndvib = NineFifteenths
          /\ ndvib = SixTenths
    /\ (pc = "mon_pause" /\ bands = ReadTable[Weed] /\ threshold = Thr515) =>
          decision = "Target" /\ rail12V = HIGH

\* The sample has been classified against the threshold 0.515.
C14_Witness ==
    /\ pc = "mon_pause" /\ bands = ReadTable[Weed] /\ threshold = Thr515
    /\ decision = "Target" /\ rail12V = HIGH /\ ~acqFailed

\* C15: a monitoring cycle is one acquisition, then one emission of the
\* record to the SD card, then one write of the rail, then one pause, each
\* once and in this order; the record the card holds when the rail is written
\* is the record of that cycle, and the pause ends the cycle.
C15_CycleOrder ==
    /\ [][/\ pc = "mon_measure" =>
                /\ pc' = "mon_log"
                /\ record'.NDVIB = MonTable[bands'].ndvib
                /\ UNCHANGED <<sdlog, rail12V, decision>>
          /\ pc = "mon_log" =>
                /\ pc' = "mon_decide"
                /\ sdlog' = record
                /\ UNCHANGED <<bands, record, rail12V, decision>>
          /\ pc = "mon_decide" =>
                /\ pc' = "mon_pause"
                /\ decision' \in {"Target", "NoTarget"}
                /\ rail12V' = RailFor(threshold, sdlog.NDVIB)
                /\ UNCHANGED <<bands, record, sdlog>>
          /\ pc = "mon_pause" =>
                /\ pc' = "mon_measure"
                /\ UNCHANGED <<bands, record, sdlog, rail12V, decision>>]_vars
    /\ [](pc \in {"mon_decide", "mon_pause"} =>
             sdlog = record /\ sdlog.NDVIB = MonTable[bands].ndvib)

\* The record of a cycle that will switch the rail on is on the card and the
\* rail still has the level of the cycle before.
C15_Witness ==
    /\ pc = "mon_decide"
    /\ sdlog = record
    /\ sdlog.NDVIB = MonTable[bands].ndvib
    /\ FLess(threshold, sdlog.NDVIB)
    /\ decision = "NoTarget" /\ rail12V = LOW

\* C16: in monitoring the 12V rail changes only in the step that writes the
\* decision; acquisition with the index computation, the SD log and the pause
\* leave the rail and the threshold as they are, so between two writes the
\* rail has the level of the previous cycle's decision.
C16_RailFrame ==
    /\ [][(pc \in {"mon_measure", "mon_log", "mon_pause"}) =>
             UNCHANGED <<rail12V, threshold, decision>>]_vars
    /\ [][pc = "mon_decide" => threshold' = threshold]_vars
    /\ [](pc \in MonPcs /\ decision # "none" =>
             ((rail12V = HIGH) <=> (decision = "Target")))
    /\ [](pc \in MonPcs /\ decision = "none" => rail12V = LOW)

\* The rail is still HIGH from the previous cycle although the sample just
\* read and logged is not a target.
C16_Witness ==
    /\ pc = "mon_decide"
    /\ rail12V = HIGH
    /\ decision = "Target"
    /\ IsFinite(ndvib)
    /\ ~FLess(threshold, ndvib)

One == FromInt(1)
OnePlusOffset == FAdd(One, OffsetInit)

\* x lies in [-1, 1].
InUnitRange(x) == IsFinite(x) /\ ~FLess(One, x) /\ ~FLess(x, FNeg(One))

\* C17: the index of a data block with a non-zero denominator lies in
\* [-1, 1]; so when calibrate() leaves a threshold >= 1 (sixteen readings
\* with b = c = d = 0 leave 1 + offset) no monitoring cycle prints Target and
\* the rail is not HIGH again after the beacon.
C17_NoTargetAboveOne ==
    /\ (pc \in {"mon_log", "mon_decide", "mon_pause"} /\ Denominator(bands) # 0) =>
          InUnitRange(ndvib)
    /\ (pc \in {"cal_sample", "cal_sum"} /\ z > 0 /\ Denominator(bands) # 0) =>
          InUnitRange(ndvi[z - 1])
    /\ (Calibrated /\ \A k \in 0 .. NumCal - 1 : ndvi[k] = One) =>
          threshold = OnePlusOffset
    /\ (pc \in MonPcs /\ IsFinite(threshold) /\ ~FLess(threshold, One)) =>
          decision # "Target" /\ rail12V = LOW

\* Calibrated on sixteen readings with b = c = d = 0, the program has just
\* classified the block with index 0.6.
C17_Witness ==
    /\ pc = "mon_pause"
    /\ \A k \in 0 .. NumCal - 1 : ndvi[k] = One
    /\ threshold = OnePlusOffset
    /\ bands = ReadTable[Weed]
    /\ decision = "NoTarget"
    /\ rail12V = LOW

\* C18: a value that is not a number always gives NoTarget.  A monitoring data
\* block whose bands u, v, w, e, f, g, b, c, d are all zero has the index 0/0
\* and its cycle prints NoTarget and writes the rail LOW; and when a reading
\* of calibrate() had a zero denominator the threshold is not a number and
\* every monitoring cycle prints NoTarget, whatever it read.
C18_NaNIsNoTarget ==
    /\ (pc \in {"mon_log", "mon_decide", "mon_pause"} /\ Denominator(bands) = 0) =>
          IsNaN(ndvib)
    /\ (pc = "mon_pause" /\ (IsNaN(ndvib) \/ IsNaN(threshold))) =>
          decision = "NoTarget" /\ rail12V = LOW
    /\ (pc \in MonPcs /\ \E k \in 0 .. NumCal - 1 : IsNaN(ndvi[k])) =>
          IsNaN(threshold) /\ decision # "Target" /\ rail12V = LOW

\* After a calibration that read an all-zero block, a cycle has read the
\* block with index 0.6 and printed NoTarget.
C18_Witness ==
    /\ pc = "mon_pause"
    /\ \E k \in 0 .. NumCal - 1 : IsNaN(ndvi[k])
    /\ IsNaN(threshold)
    /\ bands = ReadTable[Weed]
    /\ ndvib = SixTenths
    /\ decision = "NoTarget"

\* x is a value of int: -2^(IntBits-1) <= x < 2^(IntBits-1).
InIntRange(x) ==
    LET H == 2 ^ (IntBits - 2)
    IN  x - H < H /\ x + H >= -H

\* The sum of the 18 bands of a data block.
AllSum(s) ==
    s.a + s.b + s.c + s.d + s.e + s.f + s.g + s.h + s.i + s.j + s.k + s.l
    + s.r + s.s + s.t + s.u + s.v + s.w

\* The largest value of uint16_t.
U16Max == U16Range - 1

\* For each data block: the exact numerator, denominator and total as floats,
\* their quotient, and whether the sums the program computes agree with them.
ExactSums ==
    [s \in DOMAIN MonTable |->
        LET n == RedSum(s) - 2 * BlueSum(s)
        IN  [agree |-> /\ MonNd(s) = FromInt(n)
                       /\ CalNd(s) = FromInt(n)
                       /\ MonVib(s) = FromInt(Denominator(s))
                       /\ CalVib(s) = FromInt(Denominator(s))
                       /\ (MonNd(s).sgn = -1) <=> (2 * BlueSum(s) > RedSum(s))
                       /\ (CalNd(s).sgn = -1) <=> (2 * BlueSum(s) > RedSum(s)),
             total |-> FromInt(AllSum(s)),
             index |-> FDiv(FromInt(n), FromInt(Denominator(s)))]]

\* C19: with the bands held as uint16_t and the sums evaluated in 32-bit int,
\* the numerator (u+v+w+e+f+g) - 2(b+c+d), the denominator
\* (u+v+w+e+f+g) + 2(b+c+d) and the total of the 18 bands are the exact sums
\* for every data block: none wraps, the numerator is negative exactly when
\* 2(b+c+d) exceeds u+v+w+e+f+g, and it is not reduced modulo 2^16.
C19_SumsDoNotWrap ==
    /\ InIntRange(12 * U16Max) /\ InIntRange(-(6 * U16Max)) /\ InIntRange(18 * U16Max)
    /\ \A n \in BandNames : bands[n] \in 0 .. U16Max
    /\ pc \in {"mon_log", "mon_decide", "mon_pause"} =>
          /\ ExactSums[bands].agree
          /\ total = ExactSums[bands].total
          /\ ndvib = ExactSums[bands].index
    /\ (pc \in {"cal_sample", "cal_sum"} /\ z > 0) =>
          /\ ExactSums[bands].agree
          /\ ndvi[z - 1] = ExactSums[bands].index

\* A cycle has classified a block whose numerator is below -2^16 and whose
\* denominator is above 2^16.
C19_Witness ==
    /\ pc = "mon_pause"
    /\ bands = ReadTable[Blue]
    /\ RedSum(bands) - 2 * BlueSum(bands) < -U16Range
    /\ Denominator(bands) > U16Range
    /\ ndvib = FNeg(One)
    /\ decision = "NoTarget"
====
